---- MODULE Spec2Model ----
(***************************************************************************)
(* The F5 Silverline integration (F5Silverline.py): the connectivity       *)
(* check, the paging helpers, the response parser and the list command,   *)
(* as a state machine over the commands the platform invokes and the      *)
(* answers the remote service gives.                                      *)
(***************************************************************************)
EXTENDS Integers, Sequences, FiniteSets, TLC

VARIABLES pc, command, args, requests, responses, result

vars == <<pc, command, args, requests, responses, result>>

(***************************************************************************)
(* Python values.  A dict is a record (a function on its keys); every     *)
(* other value is a record with one tag field, so that any two values     *)
(* can be compared.                                                       *)
(***************************************************************************)
None == [py_none |-> TRUE]

Str(s) == [py_str |-> s]

Text(cs) == [py_text |-> cs]

IntVal(n) == [py_int |-> n]

List(xs) == [py_list |-> xs]

EmptyDict == [k \in {} |-> None]

PyTags == {"py_none", "py_str", "py_text", "py_int", "py_list"}

IsDict(v) == DOMAIN v \cap PyTags = {}

IsList(v) == "py_list" \in DOMAIN v

IsText(v) == "py_text" \in DOMAIN v

IsInt(v) == "py_int" \in DOMAIN v

\* dict.get(key): None for a missing key
Get(d, k) == IF k \in DOMAIN d THEN d[k] ELSE None

\* Python truth value: None, 0, the empty str, list and dict are falsy
Truthy(v) ==
    /\ v # None
    /\ v # EmptyDict
    /\ v # List(<<>>)
    /\ v # Text(<<>>)
    /\ v # Str("")
    /\ v # IntVal(0)

\* a call's outcome: the value returned, or the exception raised
Ok(v) == [ok |-> TRUE, val |-> v]

\* msg: the message's fragments, in order
Raised(type, msg) == [ok |-> FALSE, exc |-> [type |-> type, msg |-> msg]]

SetMin(S) == CHOOSE x \in S : \A y \in S : x <= y

(***************************************************************************)
(* re.search(PAGE_NUMBER_PATTERN, link) with                              *)
(* PAGE_NUMBER_PATTERN = "(?<=page\[number]=).*?(?=&)": the leftmost      *)
(* position preceded by "page[number]=" from which a "&" follows on the   *)
(* same line, and from there the shortest run up to a "&".                *)
(***************************************************************************)
PAGE_NUMBER_PREFIX == <<"p", "a", "g", "e", "[", "n", "u", "m", "b", "e", "r", "]", "=">>

\* (?<=page\[number]=) at position p (the index of the next character)
LookBehind(s, p) ==
    /\ p > Len(PAGE_NUMBER_PREFIX)
    /\ SubSeq(s, p - Len(PAGE_NUMBER_PREFIX), p - 1) = PAGE_NUMBER_PREFIX

\* .*?(?=&) from p: the positions q of a "&" with no line break in p..q-1
LookAheads(s, p) ==
    {q \in p..Len(s) : s[q] = "&" /\ \A j \in p..(q - 1) : s[j] # "\n"}

MatchStarts(s) ==
    {p \in 1..(Len(s) + 1) : LookBehind(s, p) /\ LookAheads(s, p) # {}}

\* re.search(...): None when nothing matches, else the match's group(0)
re_search(s) ==
    IF MatchStarts(s) = {} THEN None
    ELSE LET p == SetMin(MatchStarts(s))
             q == SetMin(LookAheads(s, p))
         IN  Text(SubSeq(s, p, q - 1))

\* re.search(PAGE_NUMBER_PATTERN, link).group(0)
re_search_group(link) ==
    IF ~IsText(link)
    THEN Raised("TypeError", <<"expected string or bytes-like object">>)
    ELSE IF re_search(link.py_text) = None
         THEN Raised("AttributeError", <<"'NoneType' object has no attribute 'group'">>)
         ELSE Ok(re_search(link.py_text))

(***************************************************************************)
(* int(x): an int is itself; a str is stripped of surrounding white       *)
(* space, may carry one sign, and must then be decimal digits.            *)
(***************************************************************************)
Digits == {"0", "1", "2", "3", "4", "5", "6", "7", "8", "9"}

DigitValue(c) ==
    CASE c = "0" -> 0 [] c = "1" -> 1 [] c = "2" -> 2 [] c = "3" -> 3
      [] c = "4" -> 4 [] c = "5" -> 5 [] c = "6" -> 6 [] c = "7" -> 7
      [] c = "8" -> 8 [] c = "9" -> 9

RECURSIVE Strip(_)
Strip(s) ==
    IF s = <<>> THEN s
    ELSE IF Head(s) = " " THEN Strip(Tail(s))
    ELSE IF s[Len(s)] = " " THEN Strip(SubSeq(s, 1, Len(s) - 1))
    ELSE s

RECURSIVE DecimalValue(_)
DecimalValue(s) ==
    IF s = <<>> THEN 0
    ELSE 10 * DecimalValue(SubSeq(s, 1, Len(s) - 1)) + DigitValue(s[Len(s)])

IsDecimal(s) == s # <<>> /\ \A i \in 1..Len(s) : s[i] \in Digits

int(x) ==
    IF IsInt(x) THEN Ok(x.py_int)
    ELSE IF ~IsText(x)
    THEN Raised("TypeError", <<"int() argument must be a string or a real number">>)
    ELSE LET s == Strip(x.py_text)
             signed == s # <<>> /\ Head(s) \in {"-", "+"}
             body == IF signed THEN Tail(s) ELSE s
         IN  IF ~IsDecimal(body)
             THEN Raised("ValueError", <<"invalid literal for int() with base 10">>)
             ELSE IF signed /\ Head(s) = "-"
                  THEN Ok(0 - DecimalValue(body))
                  ELSE Ok(DecimalValue(body))

(***************************************************************************)
(* paging_args_to_params and handle_paging                                *)
(***************************************************************************)
NumbersMessage == "page_number and page_size should be numbers"

\* a slip: the two values take each other's key
PagingArgsSwapped(page_size, page_number) ==
    LET size == int(page_size)
        number == int(page_number)
    IN  IF size.ok /\ number.ok
        THEN Ok(("page[size]" :> IntVal(number.val)) @@ ("page[number]" :> IntVal(size.val)))
        ELSE Raised("ValueError", <<NumbersMessage>>)

paging_args_to_params(page_size, page_number) ==
    LET size == int(page_size)
        number == int(page_number)
        failed == IF ~size.ok THEN size ELSE number
    IN  IF size.ok /\ number.ok
        THEN Ok(("page[size]" :> IntVal(size.val)) @@ ("page[number]" :> IntVal(number.val)))
        ELSE IF failed.exc.type = "ValueError"
             THEN Raised("ValueError", <<NumbersMessage>>)
             ELSE failed

\* a slip: a value that is no number is taken as no paging
HandlePagingUnvalidated(page_number, page_size) ==
    IF Truthy(page_number) /\ Truthy(page_size)
       /\ paging_args_to_params(page_size, page_number).ok
    THEN Ok([is_paging_required |-> TRUE,
             params |-> paging_args_to_params(page_size, page_number).val])
    ELSE Ok([is_paging_required |-> FALSE, params |-> EmptyDict])

\* a slip: 'or' for 'and'
HandlePagingEither(page_number, page_size) ==
    IF Truthy(page_number) \/ Truthy(page_size)
    THEN LET params == paging_args_to_params(page_size, page_number)
         IN  IF params.ok
             THEN Ok([is_paging_required |-> TRUE, params |-> params.val])
             ELSE params
    ELSE Ok([is_paging_required |-> FALSE, params |-> EmptyDict])

handle_paging(page_number, page_size) ==
    IF Truthy(page_number) /\ Truthy(page_size)
    THEN LET params == paging_args_to_params(page_size, page_number)
         IN  IF params.ok
             THEN Ok([is_paging_required |-> TRUE, params |-> params.val])
             ELSE params
    ELSE Ok([is_paging_required |-> FALSE, params |-> EmptyDict])

(***************************************************************************)
(* add_paging_to_outputs, paging_outputs_dict,                            *)
(* paging_data_to_human_readable                                          *)
(***************************************************************************)
\* a slip: without a last link the last page is the caller's page_number
AddPagingLastFromArgument(paging_dict, page_number) ==
    LET link_to_current_obj == Get(paging_dict, "self")
        link_to_last_obj == Get(paging_dict, "last")
        current == IF Truthy(link_to_current_obj)
                   THEN re_search_group(link_to_current_obj)
                   ELSE Ok(page_number)
        last == IF Truthy(link_to_last_obj)
                THEN re_search_group(link_to_last_obj)
                ELSE Ok(page_number)
    IN  IF ~current.ok THEN current
        ELSE IF ~last.ok THEN last
        ELSE Ok([current_page_number |-> current.val, last_page_number |-> last.val])

add_paging_to_outputs(paging_dict, page_number) ==
    IF ~IsDict(paging_dict)
    THEN Raised("AttributeError", <<"'NoneType' object has no attribute 'get'">>)
    ELSE LET link_to_current_obj == Get(paging_dict, "self")
             link_to_last_obj == Get(paging_dict, "last")
             current == IF Truthy(link_to_current_obj)
                        THEN re_search_group(link_to_current_obj)
                        ELSE Ok(page_number)
             last == IF Truthy(link_to_last_obj)
                     THEN re_search_group(link_to_last_obj)
                     ELSE current
         IN  IF ~current.ok THEN current
             ELSE IF ~last.ok THEN last
             ELSE Ok([current_page_number |-> current.val,
                      last_page_number |-> last.val])

paging_outputs_dict(current_page_number, last_page_number, page_size) ==
    [current_page_number |-> current_page_number,
     current_page_size |-> page_size,
     last_page_number |-> last_page_number]

\* the f-strings' pieces, in order
paging_data_to_human_readable(current_page_number, last_page_number, page_size) ==
    LET last == IF ~Truthy(last_page_number)
                THEN current_page_number
                ELSE last_page_number
    IN  <<Str("Current page number: "), current_page_number, Str("\n "),
          Str("Last page number: "), last, Str("\n")>>
        \o (IF Truthy(page_size)
            THEN <<Str("Current page size: "), page_size>>
            ELSE <<>>)

(***************************************************************************)
(* parse_get_ip_object_list_results                                       *)
(***************************************************************************)
\* the row of one kept element; .get on a missing 'attributes' or 'meta'
\* is .get on None
ParsedRow(ip_object) ==
    IF ~IsDict(ip_object)
    THEN Raised("AttributeError", <<"object has no attribute 'get'">>)
    ELSE IF ~IsDict(Get(ip_object, "attributes")) \/ ~IsDict(Get(ip_object, "meta"))
    THEN Raised("AttributeError", <<"'NoneType' object has no attribute 'get'">>)
    ELSE Ok([ID |-> Get(ip_object, "id"),
             IP |-> Get(Get(ip_object, "attributes"), "ip"),
             ExpiresAt |-> Get(Get(ip_object, "attributes"), "expires_at"),
             ListTarget |-> Get(Get(ip_object, "attributes"), "list_target"),
             CreatedAt |-> Get(Get(ip_object, "meta"), "created_at"),
             UpdatedAt |-> Get(Get(ip_object, "meta"), "updated_at")])

\* the for loop over results_data from element i on
RECURSIVE ParseLoop(_, _, _)
ParseLoop(results_data, i, parsed_results) ==
    IF i > Len(results_data) THEN Ok(parsed_results)
    ELSE IF ~Truthy(results_data[i])
    THEN ParseLoop(results_data, i + 1, parsed_results)
    ELSE LET row == ParsedRow(results_data[i])
         IN  IF ~row.ok THEN row
             ELSE ParseLoop(results_data, i + 1, Append(parsed_results, row.val))

\* a slip: the loop ends at the first falsy element
RECURSIVE ParseLoopBreak(_, _, _)
ParseLoopBreak(results_data, i, parsed_results) ==
    IF i > Len(results_data) \/ ~Truthy(results_data[i]) THEN Ok(parsed_results)
    ELSE LET row == ParsedRow(results_data[i])
         IN  IF ~row.ok THEN row
             ELSE ParseLoopBreak(results_data, i + 1, Append(parsed_results, row.val))

ParseStopsAtFalsy(results) ==
    LET results_data == Get(results, "data")
    IN  IF IsDict(results_data) THEN ParseLoopBreak(<<results_data>>, 1, <<>>)
        ELSE IF IsList(results_data) THEN ParseLoopBreak(results_data.py_list, 1, <<>>)
        ELSE Raised("TypeError", <<"'NoneType' object is not iterable">>)

\* a slip: a single mapping is not wrapped, and the loop runs over its keys
ParseUnwrapped(results) ==
    LET results_data == Get(results, "data")
    IN  IF IsDict(results_data)
        THEN IF results_data = EmptyDict THEN Ok(<<>>)
             ELSE Raised("AttributeError", <<"'str' object has no attribute 'get'">>)
        ELSE IF IsList(results_data) THEN ParseLoop(results_data.py_list, 1, <<>>)
        ELSE Raised("TypeError", <<"'NoneType' object is not iterable">>)

parse_get_ip_object_list_results(results) ==
    LET results_data == Get(results, "data")
    IN  IF IsDict(results_data) THEN ParseLoop(<<results_data>>, 1, <<>>)
        ELSE IF IsList(results_data) THEN ParseLoop(results_data.py_list, 1, <<>>)
        ELSE Raised("TypeError", <<"'NoneType' object is not iterable">>)

(***************************************************************************)
(* Client.request_ip_objects: the request sent; the answer is the remote  *)
(* service's, drawn by the caller.                                        *)
(***************************************************************************)
Request(method, url_suffix, params) ==
    [body |-> EmptyDict, method |-> method, url_suffix |-> url_suffix,
     params |-> params, resp_type |-> "json"]

\* 'Unauthorized' in str(e), on the message's fragments
Contains(msg, word) == \E i \in 1..Len(msg) : msg[i] = word

AuthorizationMessage == "Authorization Error: make sure API Key is correctly set"

(***************************************************************************)
(* test_module                                                            *)
(***************************************************************************)
\* a slip: every client error is taken for an authorization error
TestModuleAnyError(answer) ==
    [sent |-> <<Request("GET", <<"denylist", "ip_objects">>, EmptyDict)>>,
     outcome |->
        IF answer.ok THEN Ok(Str("ok"))
        ELSE IF answer.exc.type = "DemistoException"
             THEN Ok(Str(AuthorizationMessage))
             ELSE answer]

test_module(answer) ==
    [sent |-> <<Request("GET", <<"denylist", "ip_objects">>, EmptyDict)>>,
     outcome |->
        IF answer.ok THEN Ok(Str("ok"))
        ELSE IF answer.exc.type = "DemistoException"
             THEN IF Contains(answer.exc.msg, "Unauthorized")
                  THEN Ok(Str(AuthorizationMessage))
                  ELSE answer
             ELSE answer]

(***************************************************************************)
(* get_ip_objects_by_ids: the loop from the i-th id on; answers[i] is the *)
(* service's answer to the i-th lookup.                                   *)
(***************************************************************************)
RECURSIVE ByIdsLoop(_, _, _, _, _, _, _, _)
ByIdsLoop(object_ids, list_type, params, answers, i, human_results, outputs, sent) ==
    IF i > Len(object_ids)
    THEN [sent |-> sent,
          outcome |-> Ok([human_results |-> human_results, outputs |-> outputs])]
    ELSE LET url_suffix == <<list_type, "ip_objects", object_ids[i]>>
             now == Append(sent, Request("GET", url_suffix, params))
             res == answers[i]
             parsed == parse_get_ip_object_list_results(res.val)
         IN  IF ~res.ok THEN [sent |-> now, outcome |-> res]
             ELSE IF ~parsed.ok THEN [sent |-> now, outcome |-> parsed]
             ELSE IF parsed.val = <<>>
             THEN [sent |-> now,
                   outcome |-> Raised("IndexError", <<"list index out of range">>)]
             ELSE ByIdsLoop(object_ids, list_type, params, answers, i + 1,
                            Append(human_results, parsed.val[1]),
                            Append(outputs, Get(res.val, "data")), now)

\* a slip: the function returns inside the loop, after the first id
ByIdsFirstOnly(object_ids, list_type, params, answers) ==
    ByIdsLoop(SubSeq(object_ids, 1, 1), list_type, params, answers, 1, <<>>, <<>>, <<>>)

get_ip_objects_by_ids(object_ids, list_type, params, answers) ==
    ByIdsLoop(object_ids, list_type, params, answers, 1, <<>>, <<>>, <<>>)

(***************************************************************************)
(* get_ip_objects_list_command                                            *)
(***************************************************************************)
TABLE_HEADERS_GET_OBJECTS ==
    <<"ID", "IP", "Expires At", "List Target", "Created At", "Updated At">>

\* argToList of the object_id argument: no argument is the empty list
argToList(arg) == IF IsList(arg) THEN arg.py_list ELSE <<>>

\* tableToMarkdown(name, t, headers, removeNull=True): the table, unrendered
tableToMarkdown(name, t, headers) ==
    [md_title |-> name, md_rows |-> t, md_headers |-> headers]

NoResultsMessage ==
    "No results were found. Please try to run the command without page_number and page_size to get all existing IP objects."

CommandResults(readable_output, outputs) ==
    [readable_output |-> readable_output,
     outputs_prefix |-> "F5Silverline",
     outputs_key_field |-> "id",
     outputs |-> outputs]

\* lines 212-225: from the rows, the outputs and the paging data on
ListResults(human_results, outputs, paging_data, paging_text, is_paging_required) ==
    LET human_readable ==
            <<tableToMarkdown("F5 Silverline IP Objects", human_results,
                              TABLE_HEADERS_GET_OBJECTS)>>
            \o paging_text
    IN  CommandResults(
            IF human_results = <<>> /\ is_paging_required
            THEN <<Str(NoResultsMessage)>>
            ELSE human_readable,
            [IPObjectList |-> outputs, Paging |-> paging_data])

\* lines 200-208: the fetch of the whole collection
ListAll(list_type, page_number, page_size, paging, answer) ==
    LET url_suffix == <<list_type, "ip_objects">>
        sent == <<Request("GET", url_suffix, paging.params)>>
        response == answer.val
        outputs == Get(response, "data")
        human_results == parse_get_ip_object_list_results(response)
        pages == add_paging_to_outputs(Get(response, "links"), page_number)
    IN  IF ~answer.ok THEN [sent |-> sent, outcome |-> answer]
        ELSE IF ~human_results.ok THEN [sent |-> sent, outcome |-> human_results]
        ELSE IF paging.is_paging_required /\ Truthy(outputs)
        THEN IF ~pages.ok THEN [sent |-> sent, outcome |-> pages]
             ELSE [sent |-> sent,
                   outcome |-> Ok(ListResults(
                       human_results.val, outputs,
                       paging_outputs_dict(pages.val.current_page_number,
                                           pages.val.last_page_number, page_size),
                       paging_data_to_human_readable(
                           pages.val.current_page_number,
                           pages.val.last_page_number, page_size),
                       TRUE))]
        ELSE [sent |-> sent,
              outcome |-> Ok(ListResults(human_results.val, outputs, List(<<>>),
                                         <<>>, paging.is_paging_required))]

get_ip_objects_list_command(a, answers) ==
    LET list_type == a["list_type"]
        object_ids == argToList(Get(a, "object_id"))
        page_number == Get(a, "page_number")
        page_size == Get(a, "page_size")
        paging == handle_paging(page_number, page_size)
        by_ids == get_ip_objects_by_ids(object_ids, list_type, paging.val.params,
                                        answers)
    IN  IF ~paging.ok THEN [sent |-> <<>>, outcome |-> paging]
        ELSE IF object_ids = <<>>
        THEN ListAll(list_type, page_number, page_size, paging.val, answers[1])
        ELSE IF ~by_ids.outcome.ok THEN by_ids
        ELSE [sent |-> by_ids.sent,
              outcome |-> Ok(ListResults(by_ids.outcome.val.human_results,
                                         List(by_ids.outcome.val.outputs),
                                         List(<<>>), <<>>,
                                         paging.val.is_paging_required))]

(***************************************************************************)
(* The inputs: the arguments the platform passes and the answers the      *)
(* remote service gives.                                                  *)
(***************************************************************************)
MaxIds == 2

MaxObjects == 2

MaxData == 3

MaxText == 2

MaxParams == 2

ListTypes == {"denylist", "allowlist"}

ObjectIds == {"a", "b"}

SeqsUpTo(S, n) == UNION {[1..k -> S] : k \in 0..n}

\* an IP object of the remote service (the fields the parser reads)
IpObject(id, ip, expires_at) ==
    [id |-> Str(id),
     attributes |-> [ip |-> Str(ip), expires_at |-> expires_at,
                     list_target |-> Str("proxy-routed")],
     meta |-> [created_at |-> Str("2021-01-01"), updated_at |-> Str("2021-01-02")]]

ObjectA == IpObject("a", "1.2.3.4", None)

ObjectB == IpObject("b", "5.6.7.8", Str("2021-02-01"))

\* an element without its nested 'attributes' and 'meta'
Malformed == [id |-> Str("c")]

\* a link: "/o?" and the query parameters joined by "&"
LinkBase == <<"/", "o", "?">>

PageNumberParam(c) == PAGE_NUMBER_PREFIX \o c

PageSizeParam == <<"p", "a", "g", "e", "[", "s", "i", "z", "e", "]", "=", "2">>

TargetParam == <<"t", "=", "x">>

RECURSIVE Join(_)
Join(ps) ==
    IF ps = <<>> THEN <<>>
    ELSE IF Len(ps) = 1 THEN ps[1]
    ELSE ps[1] \o <<"&">> \o Join(Tail(ps))

Link(ps) == Text(LinkBase \o Join(ps))

Dict1(k, v) == k :> v

\* the 'links' of a response: a dict with the self and last links it carries
LinksOf(self, last) ==
    (IF self = None THEN EmptyDict ELSE Dict1("self", self))
    @@ (IF last = None THEN EmptyDict ELSE Dict1("last", last))

\* a JSON response; None for a key stands for the key being absent
Response(data, links) ==
    (IF data = None THEN EmptyDict ELSE Dict1("data", data))
    @@ (IF links = None THEN EmptyDict ELSE Dict1("links", links))

ClientErrors ==
    { Raised("DemistoException", <<"Error in API call [401] - ", "Unauthorized">>),
      Raised("DemistoException", <<"Error in API call [404] - ", "Not Found">>),
      Raised("ReadTimeout", <<"Read timed out.">>) }

\* the collection: what 'data' and 'links' may be
CollectionData ==
    {None, ObjectA, EmptyDict}
    \cup {List(xs) : xs \in SeqsUpTo({ObjectA, ObjectB, EmptyDict}, MaxObjects)}

CollectionLinks ==
    {None}
    \cup {LinksOf(self, last) :
            self \in {None, Link(<<PageNumberParam(<<"3">>), PageSizeParam>>),
                      Link(<<PageSizeParam, PageNumberParam(<<"3">>)>>)},
            last \in {None, Link(<<PageNumberParam(<<"7">>), PageSizeParam>>),
                      Link(<<PageSizeParam, PageNumberParam(<<"7">>)>>)}}

CollectionAnswers ==
    ClientErrors
    \cup {Ok(Response(d, l)) : d \in CollectionData, l \in CollectionLinks}

\* one object looked up by its id
LookupAnswers ==
    {Raised("DemistoException", <<"Error in API call [404] - ", "Not Found">>)}
    \cup {Ok(Response(d, None)) :
            d \in {ObjectA, ObjectB, EmptyDict, List(<<>>), List(<<ObjectB, ObjectA>>)}}

\* page_number and page_size as the list command gets them
PageArgs == {None, Text(<<>>), Text(<<"2">>), Text(<<"x">>)}

ListArgs ==
    {   Dict1("list_type", t)
        @@ (IF ids = <<>> THEN EmptyDict ELSE Dict1("object_id", List(ids)))
        @@ (IF n = None THEN EmptyDict ELSE Dict1("page_number", n))
        @@ (IF z = None THEN EmptyDict ELSE Dict1("page_size", z)) :
        t \in ListTypes, ids \in SeqsUpTo(ObjectIds, MaxIds),
        n \in PageArgs, z \in PageArgs }

(***************************************************************************)
(* The commands                                                           *)
(***************************************************************************)
Init ==
    /\ pc = "idle"
    /\ command = "none"
    /\ args = EmptyDict
    /\ requests = <<>>
    /\ responses = <<>>
    /\ result = None

\* main: the command ran; its result, or its error, goes to the platform
Finish(name, a, run, answers) ==
    /\ pc' = "returned"
    /\ command' = name
    /\ args' = a
    /\ requests' = run.sent
    /\ responses' = SubSeq(answers, 1, Len(run.sent))
    /\ result' = run.outcome

TestModule ==
    /\ pc = "idle"
    /\ \E answer \in CollectionAnswers :
           Finish("test-module", EmptyDict, test_module(answer), <<answer>>)

ListCommand ==
    /\ pc = "idle"
    /\ \E a \in ListArgs :
           LET n == Len(argToList(Get(a, "object_id")))
           IN  \E answers \in (IF n = 0 THEN [1..1 -> CollectionAnswers]
                                        ELSE [1..n -> LookupAnswers]) :
                   Finish("f5-silverline-ip-objects-list", a,
                          get_ip_objects_list_command(a, answers), answers)

\* the platform is ready for the next command
Return ==
    /\ pc = "returned"
    /\ pc' = "idle"
    /\ command' = "none"
    /\ args' = EmptyDict
    /\ requests' = <<>>
    /\ responses' = <<>>
    /\ result' = None

Next == TestModule \/ ListCommand \/ Return

Spec == Init /\ [][Next]_vars

(***************************************************************************)
(* The helpers on their own, over wider inputs than the commands above    *)
(* draw: each is called as the list command calls it.                     *)
(***************************************************************************)
TextChars == {"0", "1", " ", "-", "x"}

\* what a page argument may be: absent, a str, an int
PageValues ==
    {None, IntVal(0), IntVal(3)} \cup {Text(cs) : cs \in SeqsUpTo(TextChars, MaxText)}

FewPageValues == {None, Text(<<"5">>), Text(<<"x">>)}

CallHandlePaging ==
    /\ pc = "idle"
    /\ \E pair \in (PageValues \X FewPageValues) \cup (FewPageValues \X PageValues) :
           Finish("handle_paging",
                  [page_number |-> pair[1], page_size |-> pair[2]],
                  [sent |-> <<>>, outcome |-> handle_paging(pair[1], pair[2])],
                  <<>>)

NextParams == CallHandlePaging \/ Return

SpecParams == Init /\ [][NextParams]_vars

PageTexts == {<<"3">>, <<"1", "2">>}

QueryParams == {PageNumberParam(c) : c \in PageTexts} \cup {PageSizeParam, TargetParam}

IsPageNumberParam(q) ==
    /\ Len(q) >= Len(PAGE_NUMBER_PREFIX)
    /\ SubSeq(q, 1, Len(PAGE_NUMBER_PREFIX)) = PAGE_NUMBER_PREFIX

\* the links: up to MaxParams different parameters, one page[number] at most
Links ==
    {Link(ps) : ps \in {qs \in SeqsUpTo(QueryParams, MaxParams) :
        /\ qs # <<>>
        /\ \A i, j \in 1..Len(qs) :
               i # j => qs[i] # qs[j] /\ ~(IsPageNumberParam(qs[i]) /\ IsPageNumberParam(qs[j]))}}

CallAddPagingToOutputs ==
    /\ pc = "idle"
    /\ \E self \in {None} \cup Links, last \in {None} \cup Links,
          page_number \in {Text(<<"2">>), Text(<<" ", "4">>)} :
           Finish("add_paging_to_outputs",
                  [paging_dict |-> LinksOf(self, last), page_number |-> page_number],
                  [sent |-> <<>>,
                   outcome |-> add_paging_to_outputs(LinksOf(self, last), page_number)],
                  <<>>)

NextPaging == CallAddPagingToOutputs \/ Return

SpecPaging == Init /\ [][NextPaging]_vars

ParseData ==
    {None, ObjectA, ObjectB, EmptyDict, Malformed}
    \cup {List(xs) : xs \in SeqsUpTo({ObjectA, ObjectB, EmptyDict, None, Malformed}, MaxData)}

CallParse ==
    /\ pc = "idle"
    /\ \E d \in ParseData :
           Finish("parse_get_ip_object_list_results",
                  [results |-> Response(d, None)],
                  [sent |-> <<>>,
                   outcome |-> parse_get_ip_object_list_results(Response(d, None))],
                  <<>>)

NextParse == CallParse \/ Return

SpecParse == Init /\ [][NextParse]_vars

(***************************************************************************)
(* What the claims speak of, read off the state                           *)
(***************************************************************************)
ListReturned == pc = "returned" /\ command = "f5-silverline-ip-objects-list"

GivenIds == argToList(Get(args, "object_id"))

GivenPageNumber == Get(args, "page_number")

GivenPageSize == Get(args, "page_size")

\* the rows of the table in the human-readable output, when it is a table
TableRows == result.val.readable_output[1].md_rows

IsTable(piece) == "md_rows" \in DOMAIN piece

\* a page argument that is an integer, or text that denotes one: white
\* space, one optional sign, decimal digits, white space
DenotesInteger(v) ==
    \/ IsInt(v)
    \/ /\ IsText(v)
       /\ \E a \in 1..Len(v.py_text) : \E b \in a..Len(v.py_text) :
            /\ \A i \in a..b : v.py_text[i] \in Digits
            /\ \A i \in (b + 1)..Len(v.py_text) : v.py_text[i] = " "
            /\ \A i \in 1..(a - 1) :
                 \/ v.py_text[i] = " "
                 \/ i = a - 1 /\ v.py_text[i] \in {"+", "-"}

\* pagination requested: both arguments supplied, both integers
PagingRequested ==
    /\ Truthy(GivenPageNumber) /\ Truthy(GivenPageSize)
    /\ DenotesInteger(GivenPageNumber) /\ DenotesInteger(GivenPageSize)

\* the object a lookup's data holds: the mapping, or the first kept element
FirstObject(data) ==
    IF IsDict(data) THEN data
    ELSE data.py_list[SetMin({j \in 1..Len(data.py_list) : Truthy(data.py_list[j])})]

(***************************************************************************)
(* C1: the list command with n >= 1 object ids sends only lookups by id,  *)
(* the i-th one a GET to {list_type}/ip_objects/{i-th id}; when it        *)
(* returns it has sent exactly n of them, the table's rows and the        *)
(* IPObjectList are the n lookups' results in the order of the ids, and   *)
(* there is no paging descriptor and no paging summary, with or without   *)
(* a valid page_number/page_size pair.                                    *)
(***************************************************************************)
C1_LookupsInInputOrder ==
    (ListReturned /\ GivenIds # <<>>) =>
        /\ Len(requests) <= Len(GivenIds)
        /\ \A i \in 1..Len(requests) :
             /\ requests[i].method = "GET"
             /\ requests[i].url_suffix = <<args["list_type"], "ip_objects", GivenIds[i]>>
        /\ result.ok =>
             /\ Len(requests) = Len(GivenIds)
             /\ IsTable(result.val.readable_output[1])
             /\ Len(TableRows) = Len(GivenIds)
             /\ \A i \in 1..Len(GivenIds) :
                  TableRows[i] = ParsedRow(FirstObject(Get(responses[i].val, "data"))).val
             /\ result.val.outputs.IPObjectList
                  = List([i \in 1..Len(GivenIds) |-> Get(responses[i].val, "data")])
             /\ result.val.outputs.Paging = List(<<>>)
             /\ Len(result.val.readable_output) = 1

C1_Witness ==
    /\ ListReturned /\ result.ok
    /\ GivenIds = <<"b", "a">>
    /\ PagingRequested
    /\ Get(responses[1].val, "data") = ObjectB
    /\ Get(responses[2].val, "data") = ObjectA

\* a fetch of the whole collection answered with a single mapping
WholeCollectionOfOne ==
    /\ ListReturned /\ GivenIds = <<>>
    /\ Len(responses) = 1 /\ responses[1].ok
    /\ IsDict(Get(responses[1].val, "data"))

\* the same response with its data as a one-element sequence
AsSequence(response) == Dict1("data", List(<<response["data"]>>)) @@ response

(***************************************************************************)
(* C3 as claimed: in a fetch of the whole collection whose data is the    *)
(* single mapping m, the command gives what it gives for the response     *)
(* with data [m]: the same rows and the same IPObjectList.  Stated for a  *)
(* non-empty m, an IP object.                                             *)
(***************************************************************************)
C3_SameStructuredResult ==
    WholeCollectionOfOne =>
        LET twin == get_ip_objects_list_command(args, <<Ok(AsSequence(responses[1].val))>>)
        IN  (result.ok /\ twin.outcome.ok /\ Truthy(Get(responses[1].val, "data"))) =>
                /\ TableRows = twin.outcome.val.readable_output[1].md_rows
                /\ result.val.outputs.IPObjectList
                     = twin.outcome.val.outputs.IPObjectList

(***************************************************************************)
(* C3 as amended: the single mapping m and the sequence [m] are parsed    *)
(* to the same rows by parse_get_ip_object_list_results; the IPObjectList *)
(* of the structured output is the data as received, m itself.            *)
(***************************************************************************)
C3_SameParsedRows ==
    WholeCollectionOfOne =>
        /\ parse_get_ip_object_list_results(responses[1].val)
             = parse_get_ip_object_list_results(AsSequence(responses[1].val))
        /\ result.ok =>
             /\ result.val.outputs.IPObjectList = Get(responses[1].val, "data")
             /\ IsTable(result.val.readable_output[1]) =>
                  TableRows = parse_get_ip_object_list_results(
                                  AsSequence(responses[1].val)).val

C3_Witness ==
    /\ WholeCollectionOfOne /\ result.ok
    /\ Get(responses[1].val, "data") = ObjectA
    /\ TableRows = <<ParsedRow(ObjectA).val>>

(***************************************************************************)
(* C4: the list command called with pagination requested, every fetch of  *)
(* which is answered with an empty sequence of objects, returns and its   *)
(* human-readable output is the 'No results were found...' text.          *)
(***************************************************************************)
C4_NoResultsGuidance ==
    ( /\ ListReturned /\ PagingRequested
      /\ responses # <<>>
      /\ \A i \in 1..Len(responses) :
           responses[i].ok /\ Get(responses[i].val, "data") = List(<<>>) )
    => /\ result.ok
       /\ result.val.readable_output = <<Str(NoResultsMessage)>>

(***************************************************************************)
(* C5: page_number and page_size both supplied and one of them not an     *)
(* integer: the list command fails with 'page_number and page_size        *)
(* should be numbers' and no request has been sent.                       *)
(***************************************************************************)
C5_ValidationBeforeRequest ==
    ( /\ ListReturned
      /\ Truthy(GivenPageNumber) /\ Truthy(GivenPageSize)
      /\ ~(DenotesInteger(GivenPageNumber) /\ DenotesInteger(GivenPageSize)) )
    => /\ requests = <<>>
       /\ ~result.ok
       /\ result.exc = [type |-> "ValueError", msg |-> <<NumbersMessage>>]

C5_Witness ==
    /\ ListReturned
    /\ GivenIds # <<>>
    /\ GivenPageNumber = Text(<<"2">>) /\ GivenPageSize = Text(<<"x">>)
    /\ ~result.ok /\ requests = <<>>

ExactlyOneSupplied ==
    ("page_number" \in DOMAIN args) # ("page_size" \in DOMAIN args)

(***************************************************************************)
(* C7: exactly one of page_number and page_size supplied: no paging.      *)
(* The supplied value is not validated, no request carries page           *)
(* parameters, the paging descriptor is empty, and the human-readable     *)
(* output is the table alone.                                             *)
(***************************************************************************)
C7_OneArgumentIsNoPaging ==
    (ListReturned /\ ExactlyOneSupplied) =>
        /\ handle_paging(GivenPageNumber, GivenPageSize)
             = Ok([is_paging_required |-> FALSE, params |-> EmptyDict])
        /\ \A i \in 1..Len(requests) : requests[i].params = EmptyDict
        /\ requests # <<>>
        /\ ~result.ok => result.exc.type # "ValueError"
        /\ result.ok =>
             /\ result.val.outputs.Paging = List(<<>>)
             /\ Len(result.val.readable_output) = 1
             /\ IsTable(result.val.readable_output[1])

C7_Witness ==
    /\ ListReturned /\ ExactlyOneSupplied /\ result.ok
    /\ GivenPageNumber = Text(<<"x">>)
    /\ GivenIds = <<>>
    /\ TableRows = <<>>

(***************************************************************************)
(* C9: test_module sends one GET to denylist/ip_objects and then: 'ok'    *)
(* when the request succeeded; the authorization message, returned, when  *)
(* the error's text contains 'Unauthorized'; the same error otherwise.    *)
(***************************************************************************)
C9_ThreeOutcomes ==
    (pc = "returned" /\ command = "test-module") =>
        /\ Len(requests) = 1
        /\ requests[1].method = "GET"
        /\ requests[1].url_suffix = <<"denylist", "ip_objects">>
        /\ responses[1].ok => result = Ok(Str("ok"))
        /\ (~responses[1].ok /\ Contains(responses[1].exc.msg, "Unauthorized")) =>
             result = Ok(Str(AuthorizationMessage))
        /\ (~responses[1].ok /\ ~Contains(responses[1].exc.msg, "Unauthorized")) =>
             result = responses[1]

C9_Witness ==
    /\ pc = "returned" /\ command = "test-module"
    /\ ~responses[1].ok
    /\ Contains(responses[1].exc.msg, "Unauthorized")
    /\ result = Ok(Str(AuthorizationMessage))

(***************************************************************************)
(* The page number a link carries, as the claims read it: the digits that *)
(* follow the link's first "page[number]=".                               *)
(***************************************************************************)
PrefixEnds(s) ==
    {p \in (Len(PAGE_NUMBER_PREFIX) + 1)..(Len(s) + 1) :
        \A k \in 1..Len(PAGE_NUMBER_PREFIX) :
            s[p - Len(PAGE_NUMBER_PREFIX) + k - 1] = PAGE_NUMBER_PREFIX[k]}

DigitRunEnds(s, p) == {q \in p..Len(s) : \A j \in p..q : s[j] \in Digits}

CarriesPageNumber(link) ==
    /\ IsText(link)
    /\ \E p \in PrefixEnds(link.py_text) : DigitRunEnds(link.py_text, p) # {}

PageNumberOf(link) ==
    LET s == link.py_text
        p == SetMin(PrefixEnds(s))
        q == CHOOSE e \in DigitRunEnds(s, p) : \A f \in DigitRunEnds(s, p) : f <= e
    IN  Text(SubSeq(s, p, q))

PagingReturned == pc = "returned" /\ command = "add_paging_to_outputs"

SelfLink == Get(args.paging_dict, "self")

LastLink == Get(args.paging_dict, "last")

(***************************************************************************)
(* C2: add_paging_to_outputs, given a self link with page[number]=c and a *)
(* last link with page[number]=l, c and l digits, anywhere in the links'  *)
(* query strings, returns (c, l).                                         *)
(***************************************************************************)
C2_ExtractsPageNumbers ==
    (PagingReturned /\ CarriesPageNumber(SelfLink) /\ CarriesPageNumber(LastLink)) =>
        /\ result.ok
        /\ result.val.current_page_number = PageNumberOf(SelfLink)
        /\ result.val.last_page_number = PageNumberOf(LastLink)

RECURSIVE ReadDigits(_, _)
ReadDigits(cs, acc) ==
    IF cs = <<>> THEN acc
    ELSE IF Head(cs) \in Digits
         THEN ReadDigits(Tail(cs), 10 * acc + DigitValue(Head(cs)))
         ELSE ReadDigits(Tail(cs), acc)

DenotedInteger(v) ==
    IF IsInt(v) THEN v.py_int
    ELSE IF \E i \in 1..Len(v.py_text) : v.py_text[i] = "-"
         THEN 0 - ReadDigits(v.py_text, 0)
         ELSE ReadDigits(v.py_text, 0)

(***************************************************************************)
(* C8: paging_args_to_params, as handle_paging calls it: for values that  *)
(* are integers or text denoting integers it returns exactly              *)
(* {'page[size]': size, 'page[number]': number}, both ints; otherwise it  *)
(* raises the validation error.                                           *)
(***************************************************************************)
C8_ParamsOrValidationError ==
    ( /\ pc = "returned" /\ command = "handle_paging"
      /\ Truthy(args.page_number) /\ Truthy(args.page_size) )
    => IF DenotesInteger(args.page_number) /\ DenotesInteger(args.page_size)
       THEN /\ result.ok
            /\ result.val.is_paging_required
            /\ DOMAIN result.val.params = {"page[size]", "page[number]"}
            /\ result.val.params["page[size]"] = IntVal(DenotedInteger(args.page_size))
            /\ result.val.params["page[number]"] = IntVal(DenotedInteger(args.page_number))
       ELSE /\ ~result.ok
            /\ result.exc = [type |-> "ValueError", msg |-> <<NumbersMessage>>]

C8_Witness ==
    /\ pc = "returned" /\ command = "handle_paging"
    /\ args.page_number = Text(<<"-", "1">>) /\ args.page_size = Text(<<"5">>)
    /\ result.ok
    /\ result.val.params["page[number]"] = IntVal(-1)
    /\ result.val.params["page[size]"] = IntVal(5)

ParseReturned == pc = "returned" /\ command = "parse_get_ip_object_list_results"

GivenData == Get(args.results, "data")

KeptElements == SelectSeq(GivenData.py_list, Truthy)

(***************************************************************************)
(* C10: parse_get_ip_object_list_results over a data sequence returns one *)
(* row per non-empty element, in the elements' order, each the row the    *)
(* element gives on its own: the falsy elements are dropped, and only     *)
(* they.                                                                  *)
(***************************************************************************)
C10_DropsOnlyFalsyElements ==
    (ParseReturned /\ IsList(GivenData) /\ result.ok) =>
        /\ Len(result.val) = Len(KeptElements)
        /\ \A i \in 1..Len(KeptElements) :
             /\ ParsedRow(KeptElements[i]).ok
             /\ result.val[i] = ParsedRow(KeptElements[i]).val
             /\ result.val[i].ID = KeptElements[i].id
        /\ result = parse_get_ip_object_list_results(
                        Response(List(KeptElements), None))

C10_Witness ==
    /\ ParseReturned /\ result.ok
    /\ GivenData = List(<<ObjectB, None, ObjectA>>)
    /\ result.val = <<ParsedRow(ObjectB).val, ParsedRow(ObjectA).val>>

====
